---- MODULE Spec2Model ----
(***************************************************************************)
(* Trade lifecycle of the Tb trading bot: the TradeConfig record and its   *)
(* setters (trade_config), the TradeBot order coordination and monitor     *)
(* loop (trade_bot), and the front-end commands that reach them            *)
(* (telegram_handlers).  The repository holds two revisions of the bot;    *)
(* `ver` says which one is deployed:                                       *)
(*   "A" = trade_bot.py + telegram_handlers.py                             *)
(*   "B" = trade_bot_1754639472327.py + telegram_handlers_1754639472362.py *)
(* Both share trade_config_1754639472293.py and the exchange manager.      *)
(*                                                                         *)
(* Numbers: prices are integers, amounts are fixed-point integers (10000   *)
(* stands for 1.0) and percents are integers, chosen so that every product *)
(* and quotient the code computes is exact.  Python None is the number -1  *)
(* for numeric fields and the string "None" for string fields, so that     *)
(* `not x` (None or 0) and `x is None` stay distinct tests.                *)
(***************************************************************************)
EXTENDS Integers, Sequences, FiniteSets, TLC

VARIABLES ver, config, saved, current_orders, monitoring, pending, loops, inflight,
          last, audit, open_stops

vars == <<ver, config, saved, current_orders, monitoring, pending, loops, inflight,
          last, audit, open_stops>>

\* ------------------------------------------------------------------ bounds
\* Number of price levels the ticker can report (100, 200, ...).
MaxPrice == 3
\* Monitor tasks that may be created and not yet finished.
MaxTasks == 2
\* Saturation of the break-even move counter kept in `audit`.
MaxMoves == 2
\* Saturation of the count of stop orders open at the exchange.
MaxOpenStops == 2

\* ------------------------------------------------------------------ program constants
MaxLeverage == 100
MaxTrailingPercent == 50
MaxPercent == 100

None == 0 - 1
NoStr == "None"

Truthy(x) == x > 0
IsNone(x) == x = None

Prices == {100 * i : i \in 1..MaxPrice}
Levels == {1, 2, 3}
Roles == {"entry", "sl", "tp1", "tp2", "tp3"}
TpRole(level) == CASE level = 1 -> "tp1" [] level = 2 -> "tp2" [] OTHER -> "tp3"

\* ------------------------------------------------------------------ TradeConfig
Defaults ==
  [ pair |-> NoStr, side |-> NoStr, amount |-> None, entry_price |-> None, leverage |-> 1,
    tp1_price |-> None, tp1_percent |-> None,
    tp2_price |-> None, tp2_percent |-> None,
    tp3_price |-> None, tp3_percent |-> None,
    sl_price |-> None,
    breakeven_enabled |-> FALSE, breakeven_trigger |-> NoStr, breakeven_tp |-> NoStr,
    trailing_stop_enabled |-> FALSE, trailing_stop_percent |-> None,
    dry_run |-> TRUE,
    trade_active |-> FALSE, position_size |-> None, entry_filled |-> FALSE,
    tp1_filled |-> FALSE, tp2_filled |-> FALSE, tp3_filled |-> FALSE,
    breakeven_moved |-> FALSE, trailing_active |-> FALSE, highest_price |-> None ]

\* to_dict: every field but the breakeven_tp alias.
ToDictFields == (DOMAIN Defaults) \ {"breakeven_tp"}
ToDict(c) == [k \in ToDictFields |-> c[k]]

\* The handler state threaded through one operation: c the TradeConfig, f the
\* persisted file, o the order-handle map, mon the monitoring flag, pend the
\* monitor tasks created and not started, calls the gateway calls made, moves
\* the stop-loss moves made, ret the return value.
SaveConfig(m) == [m EXCEPT !.f = [exists |-> TRUE, data |-> ToDict(m.c)]]

Ret(m, v) == [m EXCEPT !.ret = v]
SetC(m, k, v) == [m EXCEPT !.c[k] = v]

\* Lookup tables for the string conversions of set_pair and set_side on the
\* inputs the model draws.
PairInputs == {"btc", "BTC/USDT", "eth/usdt"}
NormalizePair(p) ==
  CASE p = "btc" -> "BTC/USDT"
    [] p = "BTC/USDT" -> "BTC/USDT"
    [] p = "eth/usdt" -> "ETH/USDT"
    [] OTHER -> "/USDT"

SideInputs == {"long", "SHORT", "buy"}
Lower(s) == CASE s = "SHORT" -> "short" [] s = "TP1" -> "tp1" [] OTHER -> s

set_pair(m, pair) == Ret(SaveConfig(SetC(m, "pair", NormalizePair(pair))), TRUE)

set_side(m, side) ==
  IF Lower(side) \in {"long", "short"}
  THEN Ret(SaveConfig(SetC(m, "side", Lower(side))), TRUE)
  ELSE Ret(m, FALSE)

set_amount(m, amount) ==
  IF amount > 0
  THEN Ret(SaveConfig(SetC(m, "amount", amount)), TRUE)
  ELSE Ret(m, FALSE)

set_entry(m, price) ==
  IF price > 0
  THEN Ret(SaveConfig(SetC(m, "entry_price", price)), TRUE)
  ELSE Ret(m, FALSE)

\* set_tp adding the percent to the one already stored for the level.
set_tp_Accumulating(m, level, price, percent) ==
  IF level \notin {1, 2, 3} \/ price <= 0 \/ percent <= 0 \/ percent > MaxPercent
  THEN Ret(m, FALSE)
  ELSE LET add(old) == (IF old > 0 THEN old ELSE 0) + percent
           c1 == CASE level = 1 -> [m.c EXCEPT !.tp1_price = price, !.tp1_percent = add(@)]
                   [] level = 2 -> [m.c EXCEPT !.tp2_price = price, !.tp2_percent = add(@)]
                   [] OTHER     -> [m.c EXCEPT !.tp3_price = price, !.tp3_percent = add(@)]
       IN Ret(SaveConfig([m EXCEPT !.c = c1]), TRUE)

set_tp(m, level, price, percent) ==
  IF level \notin {1, 2, 3} \/ price <= 0 \/ percent <= 0 \/ percent > MaxPercent
  THEN Ret(m, FALSE)
  ELSE LET c1 == CASE level = 1 -> [m.c EXCEPT !.tp1_price = price, !.tp1_percent = percent]
                   [] level = 2 -> [m.c EXCEPT !.tp2_price = price, !.tp2_percent = percent]
                   [] OTHER     -> [m.c EXCEPT !.tp3_price = price, !.tp3_percent = percent]
       IN Ret(SaveConfig([m EXCEPT !.c = c1]), TRUE)

set_sl(m, price) ==
  IF price > 0
  THEN Ret(SaveConfig(SetC(m, "sl_price", price)), TRUE)
  ELSE Ret(m, FALSE)

\* set_leverage with the upper limit forgotten.
set_leverage_NoUpperLimit(m, leverage) ==
  IF 1 <= leverage
  THEN Ret(SaveConfig(SetC(m, "leverage", leverage)), TRUE)
  ELSE Ret(m, FALSE)

set_leverage(m, leverage) ==
  IF 1 <= leverage /\ leverage <= MaxLeverage
  THEN Ret(SaveConfig(SetC(m, "leverage", leverage)), TRUE)
  ELSE Ret(m, FALSE)

set_dry_run(m, enabled) == Ret(SaveConfig(SetC(m, "dry_run", enabled)), TRUE)

set_breakeven_tp(m, trigger) ==
  IF Lower(trigger) \in {"tp1", "tp2", "tp3", "none"}
  THEN IF Lower(trigger) = "none"
       THEN Ret(SaveConfig([m EXCEPT !.c.breakeven_enabled = FALSE,
                                     !.c.breakeven_trigger = NoStr,
                                     !.c.breakeven_tp = NoStr]), TRUE)
       ELSE Ret(SaveConfig([m EXCEPT !.c.breakeven_enabled = TRUE,
                                     !.c.breakeven_trigger = Lower(trigger),
                                     !.c.breakeven_tp = Lower(trigger)]), TRUE)
  ELSE Ret(m, FALSE)

set_breakeven(m, trigger) ==
  IF Lower(trigger) \in {"tp1", "tp2", "tp3"}
  THEN Ret(SaveConfig([m EXCEPT !.c.breakeven_enabled = TRUE,
                                !.c.breakeven_trigger = Lower(trigger)]), TRUE)
  ELSE Ret(m, FALSE)

set_trailing_stop(m, percent) ==
  IF 0 < percent /\ percent <= MaxTrailingPercent
  THEN Ret(SaveConfig([m EXCEPT !.c.trailing_stop_enabled = TRUE,
                                !.c.trailing_stop_percent = percent]), TRUE)
  ELSE Ret(m, FALSE)

\* Sum of the percents of the configured take-profit levels, as
\* is_valid_for_trading adds them up.
TotalTpPercent(c) ==
    (IF Truthy(c.tp1_price) /\ Truthy(c.tp1_percent) THEN c.tp1_percent ELSE 0)
  + (IF Truthy(c.tp2_price) /\ Truthy(c.tp2_percent) THEN c.tp2_percent ELSE 0)
  + (IF Truthy(c.tp3_price) /\ Truthy(c.tp3_percent) THEN c.tp3_percent ELSE 0)

\* is_valid_for_trading testing `not self.entry_price` instead of `is None`.
is_valid_for_trading_EntryTruthy(c) ==
  IF c.pair = NoStr THEN [ok |-> FALSE, msg |-> "Pair not set"]
  ELSE IF c.side = NoStr THEN [ok |-> FALSE, msg |-> "Side not set"]
  ELSE IF ~Truthy(c.amount) THEN [ok |-> FALSE, msg |-> "Amount not set"]
  ELSE IF ~Truthy(c.entry_price) THEN [ok |-> FALSE, msg |-> "Entry price not set"]
  ELSE IF TotalTpPercent(c) > MaxPercent
       THEN [ok |-> FALSE, msg |-> "Total TP percentages cannot exceed 100%"]
  ELSE [ok |-> TRUE, msg |-> "Configuration valid"]

is_valid_for_trading(c) ==
  IF c.pair = NoStr THEN [ok |-> FALSE, msg |-> "Pair not set"]
  ELSE IF c.side = NoStr THEN [ok |-> FALSE, msg |-> "Side not set"]
  ELSE IF ~Truthy(c.amount) THEN [ok |-> FALSE, msg |-> "Amount not set"]
  ELSE IF IsNone(c.entry_price) THEN [ok |-> FALSE, msg |-> "Entry price not set"]
  ELSE IF TotalTpPercent(c) > MaxPercent
       THEN [ok |-> FALSE, msg |-> "Total TP percentages cannot exceed 100%"]
  ELSE [ok |-> TRUE, msg |-> "Configuration valid"]

\* reset_trade_state leaving highest_price as it was.
reset_trade_state_KeepsExtreme(m) ==
  SaveConfig([m EXCEPT !.c.trade_active = FALSE, !.c.position_size = None,
                       !.c.entry_filled = FALSE,
                       !.c.tp1_filled = FALSE, !.c.tp2_filled = FALSE, !.c.tp3_filled = FALSE,
                       !.c.breakeven_moved = FALSE, !.c.trailing_active = FALSE])

reset_trade_state(m) ==
  SaveConfig([m EXCEPT !.c.trade_active = FALSE, !.c.position_size = None,
                       !.c.entry_filled = FALSE,
                       !.c.tp1_filled = FALSE, !.c.tp2_filled = FALSE, !.c.tp3_filled = FALSE,
                       !.c.breakeven_moved = FALSE, !.c.trailing_active = FALSE,
                       !.c.highest_price = None])

\* TradeConfig.reset: every field back to its default; nothing is saved.
reset(m) == [m EXCEPT !.c = Defaults]


\* ------------------------------------------------------------------ order coordination
\* A venue order as the handle map tracks it: the handle stands for the order
\* it names, with the quantity and price it was submitted with.
Order(qty, price) == [qty |-> qty, price |-> price]
NoOrders == [r \in {} |-> Order(0, 0)]
Put(o, role, ord) == [r \in (DOMAIN o) \cup {role} |-> IF r = role THEN ord ELSE o[r]]
Del(o, role) == [r \in (DOMAIN o) \ {role} |-> o[r]]

Call(m, name) == [m EXCEPT !.calls = @ \cup {name}]

\* The exchange's side of create_stop_order / cancel_order: the number of stop
\* orders of the account that are open.
OpenStop(m) == [m EXCEPT !.stops = IF @ < MaxOpenStops THEN @ + 1 ELSE @]
CloseStop(m) == [m EXCEPT !.stops = IF @ > 0 THEN @ - 1 ELSE @]
Msg(m, ok, text) == [m EXCEPT !.ret = ok, !.msg = text]

\* Sequencing of handler steps: each step maps a handler state to the set of
\* states its gateway calls can leave behind.
Bind(S, F(_)) == UNION {F(x) : x \in S}

\* Quantities an order reported closed can carry as order['filled'].
FilledQtys(qty) == {qty, qty \div 2}

\* _place_entry_order: ret says whether the entry was submitted.
MarketPrice(m) ==
  IF m.c.entry_price = 0
  THEN {Ret(Call(m, "fetch_ticker"), FALSE)}
       \cup {Ret(SaveConfig(SetC(Call(m, "fetch_ticker"), "entry_price", p)), TRUE) : p \in Prices}
  ELSE {Ret(m, TRUE)}

\* _place_entry_order whose dry-run branch marks the entry filled without
\* setting position_size.
SubmitEntry_NoPosition(m) ==
  IF m.c.dry_run
  THEN {Ret(SaveConfig([m EXCEPT !.c.entry_filled = TRUE]), TRUE)}
  ELSE IF m.c.pair # NoStr /\ Truthy(m.c.amount) /\ Truthy(m.c.entry_price)
       THEN { Ret([Call(m, "create_limit_order")
                     EXCEPT !.o = Put(m.o, "entry", Order(m.c.amount, m.c.entry_price))], TRUE),
              Ret(Call(m, "create_limit_order"), FALSE) }
       ELSE {Ret(m, FALSE)}

SubmitEntry(m) ==
  IF m.c.dry_run
  THEN {Ret(SaveConfig([m EXCEPT !.c.entry_filled = TRUE,
                                 !.c.position_size = m.c.amount]), TRUE)}
  ELSE IF m.c.pair # NoStr /\ Truthy(m.c.amount) /\ Truthy(m.c.entry_price)
       THEN { Ret([Call(m, "create_limit_order")
                     EXCEPT !.o = Put(m.o, "entry", Order(m.c.amount, m.c.entry_price))], TRUE),
              Ret(Call(m, "create_limit_order"), FALSE) }
       ELSE {Ret(m, FALSE)}

place_entry_order(m) ==
  Bind(MarketPrice(m), LAMBDA x : IF x.ret THEN SubmitEntry(x) ELSE {x})

\* _place_stop_loss
place_stop_loss_NoDryRun(m) ==
  IF ~Truthy(m.c.sl_price) \/ ~Truthy(m.c.position_size) THEN {Ret(m, FALSE)}
  ELSE IF m.c.pair = NoStr THEN {Ret(m, FALSE)}
  ELSE { Ret([OpenStop(Call(m, "create_stop_order"))
                EXCEPT !.o = Put(m.o, "sl", Order(m.c.position_size, m.c.sl_price))], TRUE),
         Ret(Call(m, "create_stop_order"), FALSE) }

place_stop_loss(m) ==
  IF ~Truthy(m.c.sl_price) \/ ~Truthy(m.c.position_size) THEN {Ret(m, FALSE)}
  ELSE IF m.c.dry_run THEN {Ret(m, TRUE)}
  ELSE IF m.c.pair = NoStr THEN {Ret(m, FALSE)}
  ELSE { Ret([OpenStop(Call(m, "create_stop_order"))
                EXCEPT !.o = Put(m.o, "sl", Order(m.c.position_size, m.c.sl_price))], TRUE),
         Ret(Call(m, "create_stop_order"), FALSE) }

TpPrice(c, level) ==
  CASE level = 1 -> c.tp1_price [] level = 2 -> c.tp2_price [] OTHER -> c.tp3_price
TpPercent(c, level) ==
  CASE level = 1 -> c.tp1_percent [] level = 2 -> c.tp2_percent [] OTHER -> c.tp3_percent
TpFilled(c, level) ==
  CASE level = 1 -> c.tp1_filled [] level = 2 -> c.tp2_filled [] OTHER -> c.tp3_filled
SetTpFilled(m, level) ==
  CASE level = 1 -> [m EXCEPT !.c.tp1_filled = TRUE]
    [] level = 2 -> [m EXCEPT !.c.tp2_filled = TRUE]
    [] OTHER     -> [m EXCEPT !.c.tp3_filled = TRUE]

\* partial_amount = (position_size * tp_percent) / 100
PartialAmount(size, percent) == (size * percent) \div 100

\* _place_take_profit
place_take_profit(m, level) ==
  IF ~Truthy(TpPrice(m.c, level)) \/ ~Truthy(TpPercent(m.c, level))
       \/ ~Truthy(m.c.position_size)
  THEN {Ret(m, FALSE)}
  ELSE IF m.c.dry_run THEN {Ret(m, TRUE)}
  ELSE IF m.c.pair = NoStr THEN {Ret(m, FALSE)}
  ELSE { Ret([Call(m, "create_limit_order")
                EXCEPT !.o = Put(m.o, TpRole(level),
                                 Order(PartialAmount(m.c.position_size, TpPercent(m.c, level)),
                                       TpPrice(m.c, level)))], TRUE),
         Ret(Call(m, "create_limit_order"), FALSE) }

\* _place_all_take_profits
PlaceTpIfSet(m, level) ==
  IF Truthy(TpPrice(m.c, level)) THEN place_take_profit(m, level) ELSE {m}

place_all_take_profits(m) ==
  Bind(Bind(PlaceTpIfSet(m, 1), LAMBDA x : PlaceTpIfSet(x, 2)), LAMBDA y : PlaceTpIfSet(y, 3))

\* _update_stop_loss: the cancel's result is not read, the handle is dropped
\* either way; then the new price is stored and the stop-loss re-submitted.
update_stop_loss(m, new_price) ==
  LET cancelled == IF "sl" \in DOMAIN m.o /\ ~m.c.dry_run /\ m.c.pair # NoStr
                   THEN { [CloseStop(Call(m, "cancel_order")) EXCEPT !.o = Del(m.o, "sl")],
                          [Call(m, "cancel_order") EXCEPT !.o = Del(m.o, "sl")] }
                   ELSE {m}
  IN Bind(cancelled, LAMBDA a : place_stop_loss(SaveConfig(SetC(a, "sl_price", new_price))))

\* A stop-loss move as the monitor makes it: recorded, then _update_stop_loss.
MoveStop(m, kind, new_price) ==
  update_stop_loss([m EXCEPT !.moves = Append(@, [kind |-> kind, old |-> m.c.sl_price,
                                                  new |-> new_price])],
                   new_price)

\* place_trade: the two refusals before anything is touched ("" = go ahead).
PlaceRefusal_NoActiveCheck(m) ==
  IF ~is_valid_for_trading(m.c).ok THEN "Configuration invalid" ELSE ""

PlaceRefusal(m) ==
  IF ~is_valid_for_trading(m.c).ok THEN "Configuration invalid"
  ELSE IF m.c.trade_active THEN "Trade already active"
  ELSE ""

\* place_trade
place_trade(m) ==
  IF PlaceRefusal(m) # "" THEN {Msg(m, FALSE, PlaceRefusal(m))}
  ELSE
    LET a == IF m.c.pair # NoStr THEN Call(m, "set_leverage") ELSE m
        b == SaveConfig(SetC(reset_trade_state(a), "trade_active", TRUE))
    IN Bind(place_entry_order(b),
            LAMBDA x :
              IF ~x.ret
              THEN {Msg(SaveConfig(SetC(x, "trade_active", FALSE)), FALSE,
                        "Failed to place entry order")}
              ELSE {Msg(IF ~x.mon THEN [x EXCEPT !.pend = @ + 1] ELSE x, TRUE,
                        "Trade placed successfully")})

\* ------------------------------------------------------------------ monitor: shared steps
\* get_ticker: a price, or None when the venue call fails.
Tickers == Prices \cup {None}

Crossed(c, price, level_price) ==
  \/ c.side = "long" /\ price <= level_price
  \/ c.side = "short" /\ price >= level_price

Reached(c, price, level_price) ==
  \/ c.side = "long" /\ price >= level_price
  \/ c.side = "short" /\ price <= level_price

\* Protection placement that gives the trade up when the stop-loss is refused.
PlaceProtection_Rollback(m) ==
  Bind(place_stop_loss(m),
       LAMBDA x : IF ~x.ret THEN {SaveConfig(SetC(x, "trade_active", FALSE))}
                  ELSE place_all_take_profits(x))

\* After the entry is seen filled: stop-loss, then every configured take-profit.
PlaceProtection(m) == Bind(place_stop_loss(m), LAMBDA x : place_all_take_profits(x))

\* _check_entry_fill, dry-run branch
CheckEntryFillDry(m) ==
  IF m.c.pair = NoStr THEN {m}
  ELSE UNION { IF t # None /\ Crossed(m.c, t, m.c.entry_price)
               THEN PlaceProtection(SaveConfig([Call(m, "get_ticker")
                                       EXCEPT !.c.entry_filled = TRUE,
                                              !.c.position_size = m.c.amount]))
               ELSE {Call(m, "get_ticker")}
             : t \in Tickers }

\* _check_entry_fill, live branch: get_order_status fails, reports the order
\* open, or reports it closed with a filled quantity.
CheckEntryFillLive(m) ==
  IF "entry" \in DOMAIN m.o /\ m.c.pair # NoStr
  THEN {Call(m, "get_order_status")}
       \cup UNION { PlaceProtection(SaveConfig([Call(m, "get_order_status")
                                       EXCEPT !.c.entry_filled = TRUE,
                                              !.c.position_size = q]))
                  : q \in FilledQtys(m.o["entry"].qty) }
  ELSE {m}

check_entry_fill(m) == IF m.c.dry_run THEN CheckEntryFillDry(m) ELSE CheckEntryFillLive(m)

\* The trigger test reading the flag of the level below the configured one.
TriggerHit_WrongLevel(c) ==
  \/ c.breakeven_trigger = "tp1" /\ c.tp1_filled
  \/ c.breakeven_trigger = "tp2" /\ c.tp1_filled
  \/ c.breakeven_trigger = "tp3" /\ c.tp2_filled

\* The trigger test of _check_breakeven / _handle_breakeven.
TriggerHit(c) ==
  \/ c.breakeven_trigger = "tp1" /\ c.tp1_filled
  \/ c.breakeven_trigger = "tp2" /\ c.tp2_filled
  \/ c.breakeven_trigger = "tp3" /\ c.tp3_filled

\* new_sl = price * (1 -/+ trailing_stop_percent / 100)
TrailingCandidate(c, price) ==
  IF c.side = "long"
  THEN (price * (100 - c.trailing_stop_percent)) \div 100
  ELSE (price * (100 + c.trailing_stop_percent)) \div 100

Better(c, new_sl, sl) ==
  \/ c.side = "long" /\ new_sl > sl
  \/ c.side = "short" /\ new_sl < sl

\* ------------------------------------------------------------------ monitor: revision A
\* _check_tp_fills, dry-run: a fresh ticker, then each level's price test.
DryTpFillA(m, level, price) ==
  IF Truthy(TpPrice(m.c, level)) /\ ~TpFilled(m.c, level)
       /\ Reached(m.c, price, TpPrice(m.c, level))
  THEN SaveConfig(SetTpFilled(m, level))
  ELSE m

CheckTpFillsDryA(m) ==
  IF m.c.pair = NoStr THEN {m}
  ELSE { IF t = None THEN Call(m, "get_ticker")
         ELSE DryTpFillA(DryTpFillA(DryTpFillA(Call(m, "get_ticker"), 1, t), 2, t), 3, t)
       : t \in Tickers }

\* _check_tp_fills, live: each tracked take-profit order is queried; a closed
\* one sets its flag and leaves the handle map.
LiveTpFillA(m, level) ==
  IF TpRole(level) \in DOMAIN m.o /\ m.c.pair # NoStr
  THEN { Call(m, "get_order_status"),
         [SaveConfig(SetTpFilled(Call(m, "get_order_status"), level))
            EXCEPT !.o = Del(m.o, TpRole(level))] }
  ELSE {m}

CheckTpFillsLiveA(m) ==
  Bind(Bind(LiveTpFillA(m, 1), LAMBDA x : LiveTpFillA(x, 2)), LAMBDA y : LiveTpFillA(y, 3))

check_tp_fills(m) == IF m.c.dry_run THEN CheckTpFillsDryA(m) ELSE CheckTpFillsLiveA(m)

\* _check_breakeven: breakeven_moved is set only when the re-submission succeeded.
check_breakeven(m) ==
  IF TriggerHit(m.c) /\ Truthy(m.c.entry_price)
  THEN { IF x.ret THEN SaveConfig(SetC(x, "breakeven_moved", TRUE)) ELSE x
       : x \in MoveStop(m, "breakeven", m.c.entry_price) }
  ELSE {m}

\* _handle_trailing_stop without the "only move stop loss up/down" comparison.
handle_trailing_stop_A_NoCompare(m, current_price) ==
  IF ~Truthy(m.c.trailing_stop_percent) \/ ~Truthy(m.c.sl_price) THEN {m}
  ELSE IF \/ ~Truthy(m.c.highest_price)
          \/ m.c.side = "long" /\ current_price > m.c.highest_price
          \/ m.c.side # "long" /\ current_price < m.c.highest_price
       THEN LET a == [m EXCEPT !.c.highest_price = current_price,
                               !.c.trailing_active = TRUE]
                trailing_distance == (current_price * a.c.trailing_stop_percent) \div 100
                new_sl == IF a.c.side = "long" THEN current_price - trailing_distance
                          ELSE current_price + trailing_distance
            IN {SaveConfig(x) : x \in MoveStop(a, "trailing", new_sl)}
       ELSE {SaveConfig(m)}

\* _handle_trailing_stop of trade_bot.py
handle_trailing_stop_A(m, current_price) ==
  IF ~Truthy(m.c.trailing_stop_percent) \/ ~Truthy(m.c.sl_price) THEN {m}
  ELSE IF \/ ~Truthy(m.c.highest_price)
          \/ m.c.side = "long" /\ current_price > m.c.highest_price
          \/ m.c.side # "long" /\ current_price < m.c.highest_price
       THEN LET a == [m EXCEPT !.c.highest_price = current_price,
                               !.c.trailing_active = TRUE]
                trailing_distance == (current_price * a.c.trailing_stop_percent) \div 100
                new_sl == IF a.c.side = "long" THEN current_price - trailing_distance
                          ELSE current_price + trailing_distance
                moved == IF a.c.side = "long" THEN new_sl > a.c.sl_price
                         ELSE new_sl < a.c.sl_price
            IN IF moved
               THEN {SaveConfig(x) : x \in MoveStop(a, "trailing", new_sl)}
               ELSE {SaveConfig(a)}
       ELSE {SaveConfig(m)}

manage_position_A(m, current_price) ==
  Bind(Bind(check_tp_fills(m),
            LAMBDA x : IF x.c.breakeven_enabled /\ ~x.c.breakeven_moved
                       THEN check_breakeven(x) ELSE {x}),
       LAMBDA y : IF y.c.trailing_stop_enabled
                  THEN handle_trailing_stop_A(y, current_price) ELSE {y})

\* _handle_tp_fill adding the closed amount instead of subtracting it.
handle_tp_fill_SignSlip(m, level, price) ==
  LET a == SetTpFilled(m, level)
      percent == TpPercent(m.c, level)
  IN IF Truthy(a.c.position_size) /\ Truthy(percent)
     THEN LET closed_amount == PartialAmount(a.c.position_size, percent)
              b == SaveConfig(SetC(a, "position_size", a.c.position_size + closed_amount))
          IN IF level = 3 /\ b.c.trailing_stop_enabled
             THEN SaveConfig([b EXCEPT !.c.trailing_active = TRUE,
                                       !.c.highest_price = price])
             ELSE b
     ELSE a

\* ------------------------------------------------------------------ monitor: revision B
\* _handle_tp_fill
handle_tp_fill(m, level, price) ==
  LET a == SetTpFilled(m, level)
      percent == TpPercent(m.c, level)
  IN IF Truthy(a.c.position_size) /\ Truthy(percent)
     THEN LET closed_amount == PartialAmount(a.c.position_size, percent)
              b == SaveConfig(SetC(a, "position_size", a.c.position_size - closed_amount))
          IN IF level = 3 /\ b.c.trailing_stop_enabled
             THEN SaveConfig([b EXCEPT !.c.trailing_active = TRUE,
                                       !.c.highest_price = price])
             ELSE b
     ELSE a

TpFillB(m, level, price) ==
  IF ~TpFilled(m.c, level) /\ Truthy(TpPrice(m.c, level))
       /\ Reached(m.c, price, TpPrice(m.c, level))
  THEN handle_tp_fill(m, level, price)
  ELSE m

\* _check_take_profit_fills
check_take_profit_fills(m, current_price) ==
  TpFillB(TpFillB(TpFillB(m, 1, current_price), 2, current_price), 3, current_price)

\* _handle_breakeven: breakeven_moved is set whatever _update_stop_loss returned.
handle_breakeven(m) ==
  IF ~m.c.breakeven_enabled \/ m.c.breakeven_moved \/ m.c.breakeven_trigger = NoStr
  THEN {m}
  ELSE IF TriggerHit(m.c) /\ Truthy(m.c.entry_price)
       THEN { SaveConfig(SetC(x, "breakeven_moved", TRUE))
            : x \in MoveStop(m, "breakeven", m.c.entry_price) }
       ELSE {m}

\* _handle_trailing_stop of trade_bot_1754639472327.py
handle_trailing_stop_B(m, current_price) ==
  IF ~m.c.trailing_active \/ ~Truthy(m.c.trailing_stop_percent)
       \/ ~Truthy(m.c.highest_price)
  THEN {m}
  ELSE IF \/ m.c.side = "long" /\ current_price > m.c.highest_price
          \/ m.c.side = "short" /\ current_price < m.c.highest_price
       THEN LET a == SetC(m, "highest_price", current_price)
                new_sl == TrailingCandidate(a.c, current_price)
            IN IF Truthy(a.c.sl_price) /\ Better(a.c, new_sl, a.c.sl_price)
               THEN {SaveConfig(x) : x \in MoveStop(a, "trailing", new_sl)}
               ELSE {SaveConfig(a)}
       ELSE {m}

manage_position_B(m, current_price) ==
  Bind(handle_breakeven(check_take_profit_fills(m, current_price)),
       LAMBDA y : handle_trailing_stop_B(y, current_price))

\* ------------------------------------------------------------------ monitor tick
manage_position(v, m, current_price) ==
  IF v = "A" THEN manage_position_A(m, current_price)
  ELSE manage_position_B(m, current_price)

\* _monitor_trade from the point where `await get_ticker` returns: nothing is
\* checked again there, the rest of the tick runs on the plan as it is by then.
monitor_trade_resume(v, m) ==
       UNION { IF t = None THEN {Call(m, "get_ticker")}
               ELSE Bind(IF ~m.c.entry_filled THEN check_entry_fill(Call(m, "get_ticker"))
                         ELSE {Call(m, "get_ticker")},
                         LAMBDA x : IF x.c.entry_filled THEN manage_position(v, x, t)
                                    ELSE {x})
             : t \in Tickers }

\* _monitor_trade: one tick of the loop.
monitor_trade(v, m) ==
  IF ~m.c.trade_active \/ m.c.pair = NoStr THEN {m}
  ELSE monitor_trade_resume(v, m)


\* ------------------------------------------------------------------ cancel, reset, front-end
CancelEach(m) ==
  IF "sl" \in DOMAIN m.o THEN {CloseStop(Call(m, "cancel_order")), Call(m, "cancel_order")}
  ELSE IF DOMAIN m.o # {} THEN {Call(m, "cancel_order")}
  ELSE {m}

\* cancel_trade of trade_bot.py
cancel_trade_A(m) ==
  IF ~m.c.trade_active THEN {Msg(m, TRUE, "")}
  ELSE { Msg([reset_trade_state(a) EXCEPT !.o = NoOrders, !.mon = FALSE], TRUE, "")
       : a \in IF ~m.c.dry_run /\ m.c.pair # NoStr THEN CancelEach(m) ELSE {m} }

\* cancel_trade of trade_bot_1754639472327.py: the class body defines it twice
\* and the second definition is the one the class keeps.
cancel_trade_B(m) ==
  IF ~m.c.trade_active THEN {Msg(m, FALSE, "No active trade to cancel")}
  ELSE {Msg(reset_trade_state(m), TRUE, "Trade cancelled successfully")}

cancel_trade(v, m) == IF v = "A" THEN cancel_trade_A(m) ELSE cancel_trade_B(m)

\* stop_monitoring (second definition of trade_bot_1754639472327.py)
stop_monitoring(m) == [m EXCEPT !.mon = FALSE]

\* /reset
handle_reset(v, m) == IF v = "A" THEN Ret(reset(m), TRUE) ELSE Ret(stop_monitoring(reset(m)), TRUE)

\* "Market Order" button
handle_market_order(v, m) ==
  IF v = "A" THEN Ret(set_entry(m, 0), TRUE)
  ELSE Ret(SaveConfig(SetC(m, "entry_price", 0)), TRUE)

\* "Clear all take profits" button
handle_clear_all_tp(m) ==
  Ret(SaveConfig([m EXCEPT !.c.tp1_price = None, !.c.tp1_percent = None,
                           !.c.tp2_price = None, !.c.tp2_percent = None,
                           !.c.tp3_price = None, !.c.tp3_percent = None]), TRUE)

\* ------------------------------------------------------------------ state machine
M == [c |-> config, f |-> saved, o |-> current_orders, mon |-> monitoring,
      stops |-> open_stops, pend |-> pending, calls |-> {}, moves |-> <<>>, ret |-> TRUE, msg |-> ""]

Min(a, b) == IF a < b THEN a ELSE b
MovesOf(r, kind) == {i \in DOMAIN r.moves : r.moves[i].kind = kind}

\* audit: per trade lifecycle, the number of break-even moves made (saturating)
\* and the last stop-loss price a trailing move set.
NextAudit(op, r) ==
  IF op = "place_trade" /\ r.ret THEN [beMoves |-> 0, trailSl |-> None]
  ELSE [beMoves |-> Min(MaxMoves, audit.beMoves + Cardinality(MovesOf(r, "breakeven"))),
        trailSl |-> IF MovesOf(r, "trailing") = {} THEN audit.trailSl
                    ELSE r.moves[CHOOSE i \in MovesOf(r, "trailing") :
                                   \A j \in MovesOf(r, "trailing") : j <= i].new]

CommitVars(op, r) ==
  /\ config' = r.c
  /\ saved' = r.f
  /\ current_orders' = r.o
  /\ monitoring' = r.mon
  /\ pending' = r.pend
  /\ last' = [op |-> op, ok |-> r.ret, msg |-> r.msg, calls |-> r.calls,
              moves |-> r.moves, before |-> audit]
  /\ audit' = NextAudit(op, r)
  /\ open_stops' = r.stops
  /\ UNCHANGED <<ver, loops>>

Commit(op, r) == CommitVars(op, r) /\ UNCHANGED inflight

NoLast == [op |-> "init", ok |-> TRUE, msg |-> "", calls |-> {}, moves |-> <<>>,
           before |-> [beMoves |-> 0, trailSl |-> None]]

\* Inputs the setter actions draw.
AmountInputs == {0 - 10000, 0, 10000}
EntryInputs == {0 - 200, 0, 200}
LeverageInputs == {0, 10, 150}
SlInputs == {0 - 100, 0, 100}
TpLevelInputs == {0, 1, 2}
TpPriceInputs == {0, 300}
TpPercentInputs == {0, 60, 100, 150}

SetPair == \E p \in {"btc"} : Commit("set_pair", set_pair(M, p))
SetSide == \E sd \in {"SHORT", "buy"} : Commit("set_side", set_side(M, sd))
SetAmount == \E a \in AmountInputs : Commit("set_amount", set_amount(M, a))
SetEntry == \E p \in EntryInputs : Commit("set_entry", set_entry(M, p))
SetLeverage == \E l \in LeverageInputs : Commit("set_leverage", set_leverage(M, l))
SetSl == \E p \in SlInputs : Commit("set_sl", set_sl(M, p))
SetTp == \E l \in TpLevelInputs, p \in TpPriceInputs, q \in TpPercentInputs :
           Commit("set_tp", set_tp(M, l, p, q))
SetDryRun == \E b \in BOOLEAN : Commit("set_dry_run", set_dry_run(M, b))
MarketOrder == Commit("market_order", handle_market_order(ver, M))
ClearAllTp == Commit("clear_all_tp", handle_clear_all_tp(M))
Reset == Commit("reset", handle_reset(ver, M))

\* A command runs once the task the previous place_trade created has started:
\* the task's first step is queued on the event loop ahead of any later command.
PlaceTrade ==
  /\ pending = 0
  /\ \E r \in place_trade(M) :
       /\ r.pend + loops <= MaxTasks
       /\ Commit("place_trade", r)

CancelTrade == pending = 0 /\ \E r \in cancel_trade(ver, M) : Commit("cancel_trade", r)

\* start_monitoring: a created task starts running; each pass of its loop is
\* one _monitor_trade; the loop ends when monitoring or trade_active is false.
MonitorStart ==
  /\ pending > 0
  /\ pending' = pending - 1
  /\ loops' = loops + 1
  /\ monitoring' = TRUE
  /\ last' = [NoLast EXCEPT !.op = "start_monitoring", !.before = audit]
  /\ UNCHANGED <<ver, config, saved, current_orders, inflight, audit, open_stops>>

Tick ==
  /\ loops > 0
  /\ monitoring /\ config.trade_active
  /\ \E r \in monitor_trade(ver, M) : Commit("tick", Ret(r, TRUE))

\* A tick taken in two steps: it passes the trade_active test and suspends in
\* `await get_ticker`; commands can run before it resumes.
TickBegin ==
  /\ loops > 0 /\ ~inflight
  /\ monitoring /\ config.trade_active /\ config.pair # NoStr
  /\ inflight' = TRUE
  /\ last' = [NoLast EXCEPT !.op = "tick_begin", !.before = audit]
  /\ UNCHANGED <<ver, config, saved, current_orders, monitoring, pending, loops, audit, open_stops>>

TickEnd ==
  /\ inflight
  /\ inflight' = FALSE
  /\ \E r \in monitor_trade_resume(ver, M) : CommitVars("tick", Ret(r, TRUE))

MonitorExit ==
  /\ loops > 0 /\ ~inflight
  /\ ~(monitoring /\ config.trade_active)
  /\ loops' = loops - 1
  /\ monitoring' = FALSE
  /\ last' = [NoLast EXCEPT !.op = "stop", !.before = audit]
  /\ UNCHANGED <<ver, config, saved, current_orders, pending, inflight, audit, open_stops>>

\* ------------------------------------------------------------------ specifications
Saved(c) == [exists |-> TRUE, data |-> ToDict(c)]

InitCommon ==
  /\ ver \in {"A", "B"}
  /\ current_orders = NoOrders
  /\ monitoring = FALSE
  /\ pending = 0
  /\ loops = 0
  /\ inflight = FALSE
  /\ last = NoLast
  /\ audit = [beMoves |-> 0, trailSl |-> None]
  /\ open_stops = 0

\* SpecPlan: the plan is edited from its defaults (no config file yet) and
\* placed; the monitor task has not been scheduled yet.
InitPlan ==
  /\ InitCommon
  /\ config = Defaults
  /\ saved = [exists |-> FALSE, data |-> ToDict(Defaults)]

NextPlan ==
  \/ SetPair \/ SetSide \/ SetAmount \/ SetEntry \/ SetLeverage \/ SetSl \/ SetTp
  \/ SetDryRun \/ MarketOrder \/ ClearAllTp
  \/ PlaceTrade

SpecPlan == InitPlan /\ [][NextPlan]_vars

\* Spec: the trade lifecycle of a plan the setters can build; no plan edits
\* while it runs.
Tp(price, percent) == <<price, percent>>
NoTp == <<None, None>>
Near(side) == 200
Far(side) == IF side = "long" THEN 300 ELSE 100
EntryOf(side) == IF side = "long" THEN 100 ELSE 300
StopOf(side) == IF side = "long" THEN 95 ELSE 315

TpShapes(side) ==
  { <<NoTp, NoTp, NoTp>>,
    <<Tp(Near(side), 50), NoTp, NoTp>>,
    <<Tp(Near(side), 50), Tp(Far(side), 50), NoTp>>,
    <<Tp(Near(side), 30), Tp(Near(side), 30), Tp(Far(side), 40)>>,
    <<NoTp, NoTp, Tp(Near(side), 100)>>,
    <<NoTp, Tp(Far(side), 50), Tp(Near(side), 50)>>,
    <<Tp(Near(side), 60), Tp(Far(side), 60), NoTp>> }

Plan(side, entry, tps, sl, trigger, trailing, dry) ==
  [Defaults EXCEPT
     !.pair = "BTC/USDT", !.side = side, !.amount = 10000, !.entry_price = entry,
     !.tp1_price = tps[1][1], !.tp1_percent = tps[1][2],
     !.tp2_price = tps[2][1], !.tp2_percent = tps[2][2],
     !.tp3_price = tps[3][1], !.tp3_percent = tps[3][2],
     !.sl_price = sl,
     !.breakeven_enabled = (trigger # NoStr), !.breakeven_trigger = trigger,
     !.breakeven_tp = trigger,
     !.trailing_stop_enabled = (trailing # None), !.trailing_stop_percent = trailing,
     !.dry_run = dry]

ConfiguredLevels(tps) == {l \in Levels : tps[l] # NoTp}
Triggers(tps) == {NoStr} \cup {TpRole(l) : l \in ConfiguredLevels(tps)}

\* Dry-run plans: every shape, with or without stop-loss, break-even on any
\* configured level, trailing on or off.
DryPlans(side) ==
  { Plan(side, EntryOf(side), x[1], sl, x[2], trailing, TRUE)
    : x \in {y \in TpShapes(side) \X {NoStr, "tp1", "tp2", "tp3"} : y[2] \in Triggers(y[1])},
      sl \in {None, StopOf(side)},
      trailing \in {None, 10} }

\* Live plans: at most two take-profit levels, in level order; trailing only
\* next to at most one level.
LiveShapes(side) ==
  {t \in TpShapes(side) : Cardinality(ConfiguredLevels(t)) <= 2 /\ (t[1] # NoTp \/ t[2] = NoTp)}

LivePlans(side) ==
  { Plan(side, EntryOf(side), x[1], StopOf(side), x[2], x[3], FALSE)
    : x \in {y \in LiveShapes(side) \X {NoStr, "tp1", "tp2", "tp3"} \X {None, 10} :
               /\ y[2] \in Triggers(y[1])
               /\ y[3] = None \/ Cardinality(ConfiguredLevels(y[1])) <= 1} }

\* Market-order plans (entry_price 0), which only revision B's front-end stores.
MarketPlans(side) ==
  { Plan(side, 0, <<Tp(Near(side), 50), NoTp, NoTp>>, StopOf(side), NoStr, None, dry)
    : dry \in BOOLEAN }

Plans(v) ==
  UNION { DryPlans(side) \cup LivePlans(side) \cup (IF v = "B" THEN MarketPlans(side) ELSE {})
        : side \in {"long", "short"} }

Init ==
  /\ InitCommon
  /\ config \in Plans(ver)
  /\ saved = Saved(config)

Next == PlaceTrade \/ MonitorStart \/ Tick \/ MonitorExit \/ CancelTrade

Spec == Init /\ [][Next]_vars

\* SpecRace: the same lifecycle with the tick suspended at its first await, so
\* that commands interleave with it.
NextRace == PlaceTrade \/ MonitorStart \/ TickBegin \/ TickEnd \/ MonitorExit \/ CancelTrade

SpecRace == Init /\ [][NextRace]_vars

\* SpecFair: the lifecycle of plans with one or two take-profit levels, with
\* the monitor task scheduled fairly: a created task starts, a running loop
\* takes its next pass, a loop whose condition is false ends.
ClosingPlans ==
  { Plan("long", EntryOf("long"), tps, StopOf("long"), NoStr, None, dry)
    : tps \in { <<Tp(Near("long"), 50), NoTp, NoTp>>,
                <<Tp(Near("long"), 50), Tp(Far("long"), 50), NoTp>> },
      dry \in BOOLEAN }

InitFair ==
  /\ InitCommon
  /\ config \in ClosingPlans
  /\ saved = Saved(config)

SpecFair ==
  /\ InitFair /\ [][Next]_vars
  /\ WF_vars(MonitorStart) /\ WF_vars(Tick) /\ WF_vars(MonitorExit)


\* ------------------------------------------------------------------ properties
IsLong == config.side = "long"
LastMoves(kind) == {i \in DOMAIN last.moves : last.moves[i].kind = kind}

\* C1: through placeTrade, monitor ticks with any prices and order statuses,
\* take-profit fills and cancelTrade, position_size, when set, lies between 0
\* and amount.
C1_PositionSizeBounded ==
  config.position_size # None =>
    0 <= config.position_size /\ config.position_size <= config.amount

\* C1 witness: a tick of revision B has just reduced the position by a
\* take-profit fill.
C1_Witness ==
  /\ ver = "B" /\ last.op = "tick" /\ config.tp1_filled
  /\ 0 < config.position_size /\ config.position_size < config.amount

\* C2: within one trade lifecycle the break-even move of the stop-loss is made
\* at most once, whether or not the stop-loss re-submission succeeds.
C2_BreakEvenAtMostOnce == audit.beMoves <= 1

\* C3: every stop-loss move of the trailing logic is strictly more favorable
\* than the price it replaces, and not less favorable than the previous
\* trailing price of the lifecycle (up for long, down for short).
C3_TrailingOnlyTightens ==
  \A i \in LastMoves("trailing") :
    LET mv == last.moves[i] IN
      /\ IF IsLong THEN mv.new > mv.old ELSE mv.new < mv.old
      /\ last.before.trailSl # None =>
           IF IsLong THEN mv.new >= last.before.trailSl ELSE mv.new <= last.before.trailSl

\* C3 witness: a second trailing move of the same lifecycle.
C3_Witness == LastMoves("trailing") # {} /\ last.before.trailSl # None

\* C4: the break-even logic moves the stop-loss only when the fill flag of the
\* configured trigger level is true, and then to exactly entry_price; so
\* breakeven_moved implies that flag.
TriggerFlag(c) ==
  CASE c.breakeven_trigger = "tp1" -> c.tp1_filled
    [] c.breakeven_trigger = "tp2" -> c.tp2_filled
    [] c.breakeven_trigger = "tp3" -> c.tp3_filled
    [] OTHER -> FALSE

C4_BreakEvenOnlyAfterTrigger ==
  /\ \A i \in LastMoves("breakeven") :
       TriggerFlag(config) /\ last.moves[i].new = config.entry_price
  /\ config.breakeven_moved => TriggerFlag(config)

\* C4 witness: trigger tp2, TP1 filled earlier without any break-even move,
\* and this tick TP2 filled and the stop-loss went to entry_price.
C4_Witness ==
  /\ config.breakeven_trigger = "tp2" /\ config.tp1_filled
  /\ LastMoves("breakeven") # {} /\ config.sl_price = config.entry_price

\* C5: is_valid_for_trading() is true exactly when pair, side, amount and
\* entry price are set (entry price 0 counts as set) and the percents of the
\* configured take-profit levels add up to at most 100.
ConfiguredPercent(c, level) == IF TpPrice(c, level) # None THEN TpPercent(c, level) ELSE 0

C5_ValidIffSetAndSum ==
  is_valid_for_trading(config).ok <=>
    /\ config.pair # NoStr /\ config.side # NoStr
    /\ config.amount # None /\ config.entry_price # None
    /\ ConfiguredPercent(config, 1) + ConfiguredPercent(config, 2)
         + ConfiguredPercent(config, 3) <= 100

\* C5 witness: a valid plan whose entry price is 0 and that has take-profits.
C5_Witness ==
  /\ is_valid_for_trading(config).ok /\ config.entry_price = 0
  /\ config.tp1_percent = 60 /\ ~config.trade_active

\* C6: set_amount, set_entry, set_leverage and set_sl return failure on an
\* out-of-range value and leave the plan and the persisted record as they were.
Rejected(r) == ~r.ret /\ r.c = config /\ r.f = saved

C6_RejectedSetterKeepsPlan ==
  /\ \A a \in {0 - 10000, 0 - 1, 0} : Rejected(set_amount(M, a))
  /\ \A l \in {0 - 5, 0, 101, 150} : Rejected(set_leverage(M, l))
  /\ \A p \in {0 - 100, 0} : Rejected(set_sl(M, p))
  /\ \A p \in {0 - 200, 0 - 1} : Rejected(set_entry(M, p))

\* C6 witness: set_leverage has just been refused and the leverage stored
\* before it is still there.
C6_Witness == last.op = "set_leverage" /\ ~last.ok /\ config.leverage = 10

\* C7: set_entry(0) succeeds and stores entry_price 0 ("market"), and the plan
\* then passes is_valid_for_trading once pair, side and amount are set.
C7_SetEntryZeroIsMarket ==
  LET r == set_entry(M, 0) IN
    /\ r.ret /\ r.c.entry_price = 0
    /\ (config.pair # NoStr /\ config.side # NoStr /\ config.amount # None)
         => is_valid_for_trading(r.c).ok

\* C8: set_tp accepts each individually valid level even when the percents
\* then add up to more than 100, place_trade refuses such a plan, and the plan
\* is never active with a configured percent sum above 100.
C8_NeverActiveAboveHundred ==
  /\ \A l \in Levels, q \in {60, 100} : set_tp(M, l, 300, q).ret
  /\ TotalTpPercent(config) > MaxPercent => \A r \in place_trade(M) : ~r.ret
  /\ config.trade_active => TotalTpPercent(config) <= MaxPercent

\* C9: set_tp called twice with the same arguments leaves the plan, the
\* persisted record and the result as one call does.
SameOutcome(r1, r2) == r1.ret = r2.ret /\ r1.c = r2.c /\ r1.f = r2.f

C9_SetTpIdempotent ==
  \A l \in 0..4, p \in {0, 200, 300}, q \in {0, 40, 60, 100, 150} :
    SameOutcome(set_tp(set_tp(M, l, p, q), l, p, q), set_tp(M, l, p, q))

\* C9 witness: set_tp has just replaced a level that was already configured
\* with another percent.
C9_Witness ==
  /\ last.op = "set_tp" /\ last.ok
  /\ config.tp1_percent = 100 /\ config.tp2_percent = 60

\* C10: place_trade starts a trade only when the plan is valid and not
\* active; otherwise it fails with a message, calls no gateway operation and
\* leaves the plan, the persisted record, the order-handle map and the monitor
\* untouched.
PlanComplete(c) ==
  /\ c.pair # NoStr /\ c.side # NoStr /\ c.amount # None /\ c.entry_price # None
  /\ ConfiguredPercent(c, 1) + ConfiguredPercent(c, 2) + ConfiguredPercent(c, 3) <= 100

C10_PlaceOnlyWhenValidAndIdle ==
  /\ (~PlanComplete(config) \/ config.trade_active) =>
       \A r \in place_trade(M) :
         /\ ~r.ret /\ r.msg # "" /\ r.calls = {}
         /\ r.c = config /\ r.f = saved /\ r.o = current_orders
         /\ r.pend = pending /\ r.mon = monitoring
  /\ (last.op = "place_trade" /\ last.ok) =>
       config.trade_active /\ PlanComplete(config)

\* C10 witness: place_trade has just been refused because a trade is active.
C10_Witness ==
  /\ last.op = "place_trade" /\ ~last.ok /\ last.msg = "Trade already active"
  /\ config.trade_active /\ last.calls = {}

\* C11: when the entry submission fails (market-price lookup, rejected limit
\* order), place_trade returns failure and the plan ends inactive with
\* entry_filled false, no order handle tracked and no monitor task created.
EntryFailed(r) == ~r.ret /\ r.msg = "Failed to place entry order"

C11_EntryFailureLeavesNothing ==
  \A r \in place_trade(M) :
    EntryFailed(r) =>
      /\ ~r.c.trade_active /\ ~r.c.entry_filled
      /\ r.o = NoOrders
      /\ r.pend = pending /\ r.mon = monitoring

\* C12: in dry-run mode, within one trade lifecycle entry_filled goes from
\* false to true once and does not return to false while the trade is active;
\* at that transition position_size is exactly amount, and position_size is
\* not set back to amount later in the lifecycle.
Holding(c) == c.trade_active /\ c.entry_filled

C12_DryEntryFilledOnce ==
  [][ (config'.dry_run /\ config'.trade_active) =>
        /\ Holding(config) => config'.entry_filled
        /\ (config'.entry_filled /\ ~Holding(config)) =>
             config'.position_size = config'.amount
        /\ (Holding(config) /\ config.position_size # config.amount) =>
             config'.position_size # config'.amount ]_vars

\* C12 witness: a dry-run trade whose entry is filled and whose position a
\* take-profit fill has already reduced below amount.
C12_Witness ==
  /\ config.dry_run /\ Holding(config) /\ last.op = "tick"
  /\ 0 < config.position_size /\ config.position_size < config.amount

\* C13: when a tick detects take-profit level N as filled, tpN_filled becomes
\* true and position_size is reduced once by percentN/100 of the position
\* held immediately before that fill, the levels of one tick compounding in
\* the order 1, 2, 3 (amount 1, TP1 50% gives 0.5 after TP1 fills).
NewlyFilled(c, d, level) == ~TpFilled(c, level) /\ TpFilled(d, level)

AfterFill(size, c, d, level) ==
  IF NewlyFilled(c, d, level) THEN size - PartialAmount(size, TpPercent(c, level)) ELSE size

Compounded(c, d) ==
  AfterFill(AfterFill(AfterFill(c.position_size, c, d, 1), c, d, 2), c, d, 3)

C13_TpFillReducesPosition ==
  [][ (last'.op = "tick" /\ Holding(config) /\ config'.trade_active) =>
        /\ \A l \in Levels : TpFilled(config, l) => TpFilled(config', l)
        /\ config'.position_size = Compounded(config, config') ]_vars

\* C14: cancel_trade on an inactive plan returns failure and has no side
\* effects: plan, persisted record, order-handle map and monitoring flag are
\* unchanged and no gateway call is made.
C14_CancelInactiveFails ==
  ~config.trade_active =>
    \A r \in cancel_trade(ver, M) :
      /\ ~r.ret
      /\ r.c = config /\ r.f = saved /\ r.o = current_orders /\ r.mon = monitoring
      /\ r.calls = {}

\* C15: cancel_trade on an active trade asks the gateway to cancel the tracked
\* handles, goes on when a cancel fails, and always ends with the handle map
\* empty, every execution-state field cleared and monitoring stopped.
ExecutionCleared(c) ==
  /\ ~c.trade_active /\ c.position_size = None /\ ~c.entry_filled
  /\ ~c.tp1_filled /\ ~c.tp2_filled /\ ~c.tp3_filled
  /\ ~c.breakeven_moved /\ ~c.trailing_active /\ c.highest_price = None

C15_CancelActiveClearsAll ==
  config.trade_active =>
    \A r \in cancel_trade(ver, M) :
      /\ r.ret
      /\ (DOMAIN current_orders # {} /\ ~config.dry_run) => "cancel_order" \in r.calls
      /\ r.o = NoOrders
      /\ ExecutionCleared(r.c)
      /\ ~r.mon

\* C16: reset_trade_state clears every execution-state field in one step and
\* leaves every configuration field (pair, side, amount, entry price,
\* leverage, stop-loss, take-profits, break-even trigger, trailing percent,
\* dry_run) as it was; the cleared plan is what it persists.
WithExecutionOf(c, d) ==
  [c EXCEPT !.trade_active = d.trade_active, !.position_size = d.position_size,
            !.entry_filled = d.entry_filled, !.tp1_filled = d.tp1_filled,
            !.tp2_filled = d.tp2_filled, !.tp3_filled = d.tp3_filled,
            !.breakeven_moved = d.breakeven_moved, !.trailing_active = d.trailing_active,
            !.highest_price = d.highest_price]

C16_ResetClearsExecutionOnly ==
  LET r == reset_trade_state(M) IN
    /\ ExecutionCleared(r.c)
    /\ WithExecutionOf(r.c, config) = config
    /\ r.f = Saved(r.c)
    /\ r.o = current_orders /\ r.mon = monitoring /\ r.calls = {}

\* C16 witness: a trade whose stop-loss had been moved to break-even has just
\* been cancelled: the execution state is clear, the plan still carries its
\* take-profit, its trigger and the moved stop-loss.
C16_Witness ==
  /\ last.op = "cancel_trade" /\ last.ok /\ ExecutionCleared(config)
  /\ config.tp1_percent = 50 /\ config.breakeven_trigger = "tp1"
  /\ config.sl_price = config.entry_price

\* C17: under any interleaving of place_trade and cancel_trade (place, cancel,
\* place again while the first loop is sleeping included) there is never more
\* than one running monitor loop, so two ticks never overlap.
C17_SingleMonitorLoop == loops <= 1

\* C18: a tick and a command never interleave: a tick that was suspended when
\* cancel_trade completed does not afterwards write the plan (entry_filled,
\* position_size, fill flags, stop-loss price) or submit orders for the
\* cancelled trade.
SubmitCalls == {"create_limit_order", "create_stop_order", "create_market_order"}

C18_NoWriteAfterCancel ==
  [][ (last'.op = "tick" /\ ~config.trade_active) =>
        /\ config' = config /\ saved' = saved
        /\ current_orders' = current_orders
        /\ last'.calls \cap SubmitCalls = {} ]_vars

\* C19: a failure inside a tick (no ticker, order-status query failing,
\* stop-loss or take-profit submission refused after the entry filled) does
\* not end the monitor loop and does not roll back trade_active or
\* entry_filled: after every tick the loop is still running on an active plan
\* and can take its next pass.
C19_TickFailureKeepsMonitoring ==
  [][ last'.op = "tick" =>
        /\ config'.trade_active /\ (config.entry_filled => config'.entry_filled)
        /\ monitoring' /\ loops' = loops /\ loops' > 0 ]_vars

\* C19 witness: a live tick saw the entry filled and its stop-loss submission
\* was refused; the trade is still active and monitored.
C19_Witness ==
  /\ last.op = "tick" /\ ~config.dry_run /\ config.entry_filled
  /\ "create_stop_order" \in last.calls /\ "sl" \notin DOMAIN current_orders
  /\ config.trade_active /\ monitoring /\ loops > 0

\* C20: once every configured take-profit level has filled (or position_size
\* has reached 0) the trade eventually closes: the plan stops being active
\* and the monitor loop stops polling, given fair execution of ticks.
AllTakeProfitsFilled(c) ==
  /\ \E l \in Levels : Truthy(TpPrice(c, l))
  /\ \A l \in Levels : Truthy(TpPrice(c, l)) => TpFilled(c, l)

PositionDone(c) ==
  Holding(c) /\ (AllTakeProfitsFilled(c) \/ c.position_size = 0)

C20_EventuallyClosed ==
  PositionDone(config) ~> (~config.trade_active /\ ~monitoring)

\* ---- C21
\* What the trade was opened with.
Identity(c) == <<c.pair, c.side, c.amount, c.entry_price, c.leverage>>

\* C21: between two states in which the trade is active, the pair, the side,
\* the amount, the entry price and the leverage of the plan are unchanged.
C21_ActivePlanFrozen ==
  [][(config.trade_active /\ config'.trade_active) => Identity(config') = Identity(config)]_vars

\* ---- C22
\* C22: while the trade stays active, a step that changes sl_price is a tick
\* that moved the stop-loss through _update_stop_loss.
C22_StopChangesOnlyByMove ==
  [][(config.trade_active /\ config'.trade_active /\ config'.sl_price # config.sl_price)
       => (last'.op = "tick" /\ last'.moves # <<>>)]_vars

\* ---- C23
\* SpecReset: the plan is edited, placed and reset (/reset) from its defaults;
\* the take-profit and leverage commands are left to SpecPlan.
NextReset ==
  \/ SetPair \/ SetSide \/ SetAmount \/ SetEntry \/ SetSl \/ SetDryRun
  \/ PlaceTrade \/ Reset

SpecReset == InitPlan /\ [][NextReset]_vars

\* TradeConfig(): reset() to the defaults, then load_config() sets every
\* attribute the file names.
load_config(f) ==
  IF f.exists
  THEN [k \in DOMAIN Defaults |-> IF k \in DOMAIN f.data THEN f.data[k] ELSE Defaults[k]]
  ELSE Defaults

\* C23: after an operation that succeeded, a restart (a new TradeConfig read
\* from the saved file) gives the plan as it is in memory.
C23_RestartReloadsPlan ==
  (last.op # "init" /\ last.ok) => load_config(saved) = config

\* The same for the fields to_dict writes only.
C23_SavedFieldsCurrent ==
  (last.op # "init" /\ last.ok) => ToDict(load_config(saved)) = ToDict(config)

\* ---- C24
OrderCalls == SubmitCalls \cup {"cancel_order"}

\* _place_stop_loss / _place_take_profit have something to submit.
HasStop(c) == Truthy(c.sl_price) /\ Truthy(c.position_size)
HasTakeProfit(c, level) ==
  Truthy(TpPrice(c, level)) /\ Truthy(TpPercent(c, level)) /\ Truthy(c.position_size)

\* C24: in dry-run no operation creates or cancels an order at the exchange, an
\* empty current_orders stays empty, and _place_stop_loss and
\* _place_take_profit return True without changing anything.
C24_DryRunTouchesNoOrder ==
  /\ [](config.dry_run =>
          /\ HasStop(config) => place_stop_loss(M) = {M}
          /\ \A level \in Levels :
               HasTakeProfit(config, level) => place_take_profit(M, level) = {M})
  /\ [][(config.dry_run /\ config'.dry_run) =>
          /\ last'.calls \cap OrderCalls = {}
          /\ current_orders = NoOrders => current_orders' = NoOrders]_vars

\* a dry-run tick moved the stop-loss with a take-profit still to come
C24_Witness ==
  /\ config.dry_run /\ last.op = "tick" /\ last.moves # <<>>
  /\ HasStop(config) /\ \E level \in Levels : HasTakeProfit(config, level)

\* ---- C25
\* C25: in dry-run the step that marks the entry filled is a monitor tick (the
\* one that saw the price cross the entry price), never place_trade.
C25_DryEntryFilledByTick ==
  [][(config'.dry_run /\ ~config.entry_filled /\ config'.entry_filled)
       => last'.op = "tick"]_vars

\* ---- C26
\* C26: in live mode no stop-loss or take-profit handle is tracked while the
\* entry is not filled.
C26_ProtectionOnlyAfterFill ==
  (~config.dry_run /\ ~config.entry_filled) => DOMAIN current_orders \subseteq {"entry"}

\* The same in the first revision only.
C26_ProtectionOnlyAfterFillA == ver = "A" => C26_ProtectionOnlyAfterFill

\* ---- C27
AnyTpFilled(c) == c.tp1_filled \/ c.tp2_filled \/ c.tp3_filled

\* C27: trailing_active implies that trailing is enabled and a take-profit has
\* filled, and a tick that made a trailing stop-loss move ends with a
\* take-profit filled.
C27_TrailingNeedsTakeProfit ==
  /\ config.trailing_active => (config.trailing_stop_enabled /\ AnyTpFilled(config))
  /\ LastMoves("trailing") # {} => AnyTpFilled(config)

\* The same in the second revision only.
C27_TrailingNeedsTakeProfitB == ver = "B" => C27_TrailingNeedsTakeProfit

\* ---- C28
\* price a is a more favourable extreme than b for the side of plan c
BetterExtreme(c, a, b) ==
  \/ c.side = "long" /\ a > b
  \/ c.side = "short" /\ a < b

\* C28: the tick in which take-profit 3 fills with trailing enabled ends with
\* trailing_active set and highest_price at a price that reached tp3_price
\* (the fill price); while trailing stays active, highest_price changes only
\* to a more favourable price.
C28_Tp3SeedsTrailing ==
  [][/\ (Holding(config) /\ NewlyFilled(config, config', 3) /\ config.trailing_stop_enabled)
          => /\ config'.trailing_active
             /\ Reached(config', config'.highest_price, config.tp3_price)
     /\ (config.trailing_active /\ config'.trailing_active
           /\ config'.highest_price # config.highest_price)
          => BetterExtreme(config, config'.highest_price, config.highest_price)]_vars

\* The second revision: a position-management pass at price t in which
\* take-profit 3 fills leaves trailing_active set and highest_price = t.
C28_Tp3SeedsTrailingB ==
  (ver = "B" /\ Holding(config) /\ config.trailing_stop_enabled) =>
     \A t \in Tickers \ {None} : \A r \in manage_position(ver, M, t) :
        NewlyFilled(config, r.c, 3) => (r.c.trailing_active /\ r.c.highest_price = t)

\* Either revision: highest_price of an active trailing stop only improves.
C28_ExtremeOnlyImproves ==
  [][(config.trailing_active /\ config'.trailing_active
        /\ config'.highest_price # config.highest_price)
       => BetterExtreme(config, config'.highest_price, config.highest_price)]_vars

\* ---- C29
\* C29: after a tick of a held position with trailing active and a stop-loss
\* set, the trailing candidate computed from highest_price is not more
\* favourable than sl_price.
C29_StopCoversCandidate ==
  (/\ last.op = "tick" /\ Holding(config)
   /\ config.trailing_active /\ Truthy(config.trailing_stop_percent)
   /\ Truthy(config.highest_price) /\ Truthy(config.sl_price))
    => ~Better(config, TrailingCandidate(config, config.highest_price), config.sl_price)

\* The same per revision.
C29_StopCoversCandidateA == ver = "A" => C29_StopCoversCandidate
C29_StopCoversCandidateB == ver = "B" => C29_StopCoversCandidate

\* ---- C30
\* the handler state a following tick starts from
NextTick(r) == [r EXCEPT !.calls = {}, !.moves = <<>>, !.ret = TRUE, !.msg = ""]

FillFlags(c) == <<c.tp1_filled, c.tp2_filled, c.tp3_filled>>

\* C30: a position-management pass that follows another one at the same
\* price and ends with the same fill flags moves no stop-loss.
C30_DecisionsIdempotent ==
  Holding(config) =>
    \A t \in Prices : \A r \in manage_position(ver, M, t) :
      \A r2 \in manage_position(ver, NextTick(r), t) :
        FillFlags(r2.c) = FillFlags(r.c) => r2.moves = <<>>

\* The same in the second revision only.
C30_DecisionsIdempotentB == ver = "B" => C30_DecisionsIdempotent

\* ---- C31
\* C31: in live mode, once the entry fill has been detected the entry order,
\* which is closed, is no longer in current_orders.
C31_NoEntryHandleAfterFill ==
  (~config.dry_run /\ config.trade_active /\ config.entry_filled)
    => "entry" \notin DOMAIN current_orders

\* ---- C32
\* place_trade_sync (and _handle_place of the second revision): place_trade
\* runs on a new event loop with run_until_complete, then the loop is closed.
\* A task place_trade created runs its first step before the loop stops:
\* start_monitoring sets monitoring, enters the loop and _monitor_trade suspends
\* in `await get_ticker`, whose fetch runs in an executor thread. No later step
\* of that task is ever scheduled: it belongs to the closed loop.
place_trade_sync(m) ==
  { IF r.pend > m.pend THEN [r EXCEPT !.pend = m.pend, !.mon = TRUE] ELSE r
    : r \in place_trade(m) }

PlaceTradeSync ==
  \E r \in place_trade_sync(M) :
    /\ CommitVars("place_trade", r)
    /\ inflight' = (inflight \/ (r.mon /\ ~monitoring))

\* The executor thread's fetch_ticker returns; its loop is closed, so the
\* result is dropped and the suspended task is not resumed.
TickerDone ==
  /\ inflight /\ loops = 0
  /\ inflight' = FALSE
  /\ last' = [NoLast EXCEPT !.op = "ticker_done", !.before = audit]
  /\ UNCHANGED <<ver, config, saved, current_orders, monitoring, pending, loops, audit, open_stops>>

\* The abandoned task is garbage-collected: closing its coroutine runs the
\* `finally` of start_monitoring. When this happens is up to the collector.
TaskFinalized ==
  /\ monitoring /\ loops = 0 /\ pending = 0 /\ ~inflight
  /\ monitoring' = FALSE
  /\ last' = [NoLast EXCEPT !.op = "task_finalized", !.before = audit]
  /\ UNCHANGED <<ver, config, saved, current_orders, pending, loops, inflight, audit, open_stops>>

\* SpecSync: the bot as the front-end and the HTTP API drive it, through the
\* synchronous entry points. The executor thread is scheduled fairly.
NextSync == PlaceTradeSync \/ CancelTrade \/ TickerDone \/ TaskFinalized

SpecSync == Init /\ [][NextSync]_vars /\ WF_vars(TickerDone)

\* C32: after place_trade returned success, a tick is executed or the plan
\* stops being active.
C32_PlacedTradeIsTicked ==
  (last.op = "place_trade" /\ last.ok) ~> (last.op = "tick" \/ ~config.trade_active)

\* ---- C33
\* C33: a cancel_trade that succeeded while a monitoring loop was running is
\* followed by a monitoring loop leaving start_monitoring (in behaviours where
\* cancel commands stop coming at some point).
C33_CancelledLoopEnds ==
  <>[](last.op # "cancel_trade")
    => ((last.op = "cancel_trade" /\ last.ok /\ loops > 0) ~> (last.op = "stop"))

\* ---- C34
\* C34: while the trade stays active, a step that changes a set stop-loss
\* price changes it to a more favourable one (higher for long, lower for short).
C34_StopNeverLoosens ==
  [][(/\ config.trade_active /\ config'.trade_active
      /\ Truthy(config.sl_price) /\ config'.sl_price # config.sl_price)
       => Better(config, config'.sl_price, config.sl_price)]_vars

\* ---- C35
\* quantity of the tracked take-profit order of a level that fills in this step
FilledOrderQty(level) ==
  IF NewlyFilled(config, config', level) THEN current_orders[TpRole(level)].qty ELSE 0

\* C35: in live mode, a step of a held position in which take-profit levels
\* fill whose orders are tracked reduces position_size by the quantities of
\* those orders.
C35_FillReducesByOrderQty ==
  [][(/\ ~config.dry_run /\ Holding(config) /\ Holding(config')
      /\ \E level \in Levels : NewlyFilled(config, config', level)
      /\ \A level \in Levels : NewlyFilled(config, config', level)
                                 => TpRole(level) \in DOMAIN current_orders)
       => config'.position_size =
            config.position_size - FilledOrderQty(1) - FilledOrderQty(2) - FilledOrderQty(3)]_vars

\* The same in the second revision only.
C35_FillReducesByOrderQtyB ==
  [][(/\ ver = "B" /\ ~config.dry_run /\ Holding(config) /\ Holding(config')
      /\ \E level \in Levels : NewlyFilled(config, config', level)
      /\ \A level \in Levels : NewlyFilled(config, config', level)
                                 => TpRole(level) \in DOMAIN current_orders)
       => config'.position_size =
            config.position_size - FilledOrderQty(1) - FilledOrderQty(2) - FilledOrderQty(3)]_vars

\* ---- C36
\* C36: at most one stop order is open at the exchange.
C36_OneStopOrderOpen == open_stops <= 1

\* ---- C37
\* C37: in live mode, while a position is held, a tracked stop-loss order has
\* the quantity position_size.
C37_StopSizedToPosition ==
  (~config.dry_run /\ Holding(config) /\ "sl" \in DOMAIN current_orders)
    => current_orders["sl"].qty = config.position_size

\* The same in the first revision only.
C37_StopSizedToPositionA == ver = "A" => C37_StopSizedToPosition

\* ---- C38
\* C38: in live mode with a position left, a tick that sets breakeven_moved
\* and makes no other stop-loss move ends with a stop order at entry_price
\* tracked.
C38_BreakevenMeansProtected ==
  [][(/\ ~config.dry_run /\ ~config.breakeven_moved /\ config'.breakeven_moved
      /\ Truthy(config'.position_size)
      /\ Len(last'.moves) = 1)
       => /\ "sl" \in DOMAIN current_orders'
          /\ current_orders'["sl"].price = config'.entry_price]_vars

\* The same in the first revision only.
C38_BreakevenMeansProtectedA ==
  [][(/\ ver = "A" /\ ~config.dry_run /\ ~config.breakeven_moved /\ config'.breakeven_moved
      /\ Truthy(config'.position_size)
      /\ Len(last'.moves) = 1)
       => /\ "sl" \in DOMAIN current_orders'
          /\ current_orders'["sl"].price = config'.entry_price]_vars


\* ---- C39
\* The process is restarted: TradeBot() builds a TradeConfig that reads the
\* saved file, an empty handle map and monitoring = False; the tasks of the
\* old process are gone, the orders at the exchange stay. Nothing in the
\* constructor starts the monitor.
Restart ==
  /\ config' = load_config(saved)
  /\ current_orders' = NoOrders
  /\ monitoring' = FALSE
  /\ pending' = 0
  /\ loops' = 0
  /\ inflight' = FALSE
  /\ last' = [NoLast EXCEPT !.op = "restart", !.before = audit]
  /\ UNCHANGED <<ver, saved, audit, open_stops>>

\* SpecRestart: the lifecycle with restarts of the process.
NextRestart == Next \/ Restart

SpecRestart == Init /\ [][NextRestart]_vars

\* C39: whenever the plan is active, the monitor runs or its start is pending.
C39_ActiveIsMonitored ==
  config.trade_active => (monitoring \/ pending > 0)

\* The same without restarts of the process (checked on Spec).
C39_ActiveIsMonitoredNoRestart ==
  (last.op # "restart" /\ config.trade_active) => (monitoring \/ pending > 0)


\* ---- C40
\* C40: a dry-run tick whose price crosses the stop-loss price of the held
\* position (at or below it for a long, at or above it for a short) ends with
\* position_size 0.
C40_StopHitClosesPosition ==
  (/\ loops > 0 /\ monitoring
   /\ config.dry_run /\ Holding(config)
   /\ Truthy(config.sl_price) /\ Truthy(config.position_size))
    => \A t \in Prices :
         Crossed(config, t, config.sl_price)
           => \A r \in manage_position(ver, Call(M, "get_ticker"), t) :
                r.c.position_size = 0

\* A tick changes position_size of a held position only with a take-profit
\* fill: no step of it closes the position for the stop-loss.
C40_TickReducesOnlyByTakeProfit ==
  [][(/\ last'.op = "tick" /\ Holding(config)
      /\ config'.position_size # config.position_size)
       => \E level \in Levels : NewlyFilled(config, config', level)]_vars

====
